---- MODULE Spec2Model ----
(***************************************************************************)
(* Model of src/app.py: the Flask handler chat_completions that forwards   *)
(* an OpenAI-style chat request to the NVIDIA NIM endpoint and relays the  *)
(* answer, buffered or as a stream of lines.                               *)
(*                                                                         *)
(* JSON scalars are written as their JSON text ("0.7", "true", "null").    *)
(* Byte strings of the stream are sequences of byte values.                *)
(***************************************************************************)
EXTENDS Integers, Sequences, FiniteSets, TLC

VARIABLES
    NIM_API_KEY,  \* module-level credential, read once at start (line 16)
    pc,           \* position of the request being handled
    method,       \* request.method of the inbound request
    body,         \* inbound body: [kind, data]
    sent,         \* upstream requests sent while handling this request
    upstream,     \* status line and text of the upstream answer
    received,     \* lines iter_lines() has delivered so far
    relayed,      \* chunks generate() has yielded so far
    response,     \* what the handler returned: [status, mimetype, json]
    failure       \* the exception raised while handling, if any

vars == <<NIM_API_KEY, pc, method, body, sent, upstream, received, relayed,
          response, failure>>

----------------------------------------------------------------------------
(* Bounds of the model *)

\* longest stream of upstream lines explored
MaxLines == 3

----------------------------------------------------------------------------
(* Constants of the program *)

NOT_CONFIGURED == "not-configured"

NIM_BASE_URL == "https://integrate.api.nvidia.com/v1"

\* timeout=120 of both requests.post calls
TIMEOUT == 120

\* the byte b'\n' appended to every relayed line
NL == 10

Keys == {"model", "messages", "temperature", "top_p", "max_tokens", "stream"}

\* data.get(key, default)
Get(data, key, default) == IF key \in DOMAIN data THEN data[key] ELSE default

\* Python truth value of a JSON scalar or container
Truthy(v) == v \notin {"false", "null", "0", "0.0", "\"\"", "[]", "{}"}

\* data.get(key) or default: the default also replaces a present false value
GetOr(data, key, default) ==
    IF key \in DOMAIN data /\ Truthy(data[key]) THEN data[key] ELSE default

\* nim_request built with "or" defaults
nim_request_or(data) ==
    [model       |-> GetOr(data, "model", "meta/llama-3.3-70b-instruct"),
     messages    |-> GetOr(data, "messages", "[]"),
     temperature |-> GetOr(data, "temperature", "0.7"),
     top_p       |-> GetOr(data, "top_p", "1.0"),
     max_tokens  |-> GetOr(data, "max_tokens", "1024"),
     stream      |-> GetOr(data, "stream", "false")]

\* nim_request = {...}: each field from the body, else the literal default
nim_request_of(data) ==
    [model       |-> Get(data, "model", "meta/llama-3.3-70b-instruct"),
     messages    |-> Get(data, "messages", "[]"),
     temperature |-> Get(data, "temperature", "0.7"),
     top_p       |-> Get(data, "top_p", "1.0"),
     max_tokens  |-> Get(data, "max_tokens", "1024"),
     stream      |-> Get(data, "stream", "false")]

\* headers = {'Authorization': f'Bearer {NIM_API_KEY}', ...}
headers_of(key) ==
    [Authorization |-> "Bearer " \o key, ContentType |-> "application/json"]

----------------------------------------------------------------------------
(* Exceptions and the handler's except clauses *)

\* the classes an exception is an instance of (Python class hierarchy of
\* requests.exceptions, werkzeug.exceptions and the builtins)
Bases(cls) ==
    CASE cls = "ConnectTimeout" ->
           {"ConnectTimeout", "ConnectionError", "Timeout", "RequestException", "Exception"}
      [] cls = "ReadTimeout" ->
           {"ReadTimeout", "Timeout", "RequestException", "Exception"}
      [] cls = "ConnectionError" ->
           {"ConnectionError", "RequestException", "Exception"}
      [] cls = "ChunkedEncodingError" ->
           {"ChunkedEncodingError", "RequestException", "Exception"}
      [] cls = "JSONDecodeError" ->
           {"JSONDecodeError", "InvalidJSONError", "RequestException", "Exception"}
      [] cls = "ValueError" -> {"ValueError", "Exception"}
      [] cls = "AttributeError" -> {"AttributeError", "Exception"}
      [] cls = "BadRequest" -> {"BadRequest", "HTTPException", "Exception"}
      [] OTHER -> {"Exception"}

NoJson == [none |-> "none"]

NoResponse == [status |-> 0, mimetype |-> "none", json |-> NoJson]

NoUpstream == [status |-> 0, text |-> ""]

NoFailure == [cause |-> "none", cls |-> "none", desc |-> "", caught |-> FALSE]

\* return jsonify(obj), status
jsonify(obj, status) ==
    [status |-> status, mimetype |-> "application/json", json |-> obj]

\* except clauses whose second clause names Exception
except_clauses_broad(exc) ==
    IF "Timeout" \in Bases(exc.cls)
      THEN jsonify([error |-> "Request timed out"], 504)
      ELSE jsonify([error |-> "Request error: " \o exc.desc], 502)

\* the three except clauses, tried in order
except_clauses(exc) ==
    IF "Timeout" \in Bases(exc.cls)
      THEN jsonify([error |-> "Request timed out"], 504)
    ELSE IF "RequestException" \in Bases(exc.cls)
      THEN jsonify([error |-> "Request error: " \o exc.desc], 502)
    ELSE jsonify([error |-> exc.desc], 500)

\* what request.json / data.get raise for a body that is no JSON object
BodyException(kind) ==
    IF kind = "invalid"
      THEN [cause |-> "bad_body", cls |-> "BadRequest",
            desc |-> "400 Bad Request", caught |-> TRUE]
      ELSE [cause |-> "bad_body", cls |-> "AttributeError",
            desc |-> "object has no attribute 'get'", caught |-> TRUE]

\* what requests.post raises: timeouts and other transport failures
PostExceptions ==
    {[cause |-> "timeout", cls |-> "ConnectTimeout",
      desc |-> "connect timed out", caught |-> TRUE],
     [cause |-> "timeout", cls |-> "ReadTimeout",
      desc |-> "read timed out", caught |-> TRUE],
     [cause |-> "transport", cls |-> "ConnectionError",
      desc |-> "connection refused", caught |-> TRUE]}

\* what nim_response.json() raises on a body that is no JSON: requests'
\* own JSONDecodeError (a RequestException) or the json module's ValueError,
\* depending on the installed requests
JsonExceptions ==
    {[cause |-> "bad_upstream_json", cls |-> "JSONDecodeError",
      desc |-> "Expecting value", caught |-> TRUE],
     [cause |-> "bad_upstream_json", cls |-> "ValueError",
      desc |-> "Expecting value", caught |-> TRUE]}

\* what iter_lines() raises inside generate(), after the handler returned
StreamExceptions ==
    {[cause |-> "timeout", cls |-> "ReadTimeout",
      desc |-> "read timed out", caught |-> FALSE],
     [cause |-> "transport", cls |-> "ChunkedEncodingError",
      desc |-> "connection broken", caught |-> FALSE]}

----------------------------------------------------------------------------
(* Upstream answers *)

UpstreamStatuses == {200, 429, 504}

UpstreamTexts ==
    {"{\"id\":\"x\"}", "{ \"id\" : \"x\" }", "{\"choices\":\"[]\"}", "rate limited"}

\* nim_response.json(): the value of a JSON text
IsJson(t) == t \in {"{\"id\":\"x\"}", "{ \"id\" : \"x\" }", "{\"choices\":\"[]\"}"}

JsonLoads(t) ==
    CASE t = "{\"id\":\"x\"}" -> [id |-> "x"]
      [] t = "{ \"id\" : \"x\" }" -> [id |-> "x"]
      [] t = "{\"choices\":\"[]\"}" -> [choices |-> "[]"]

\* lines of the upstream stream, as iter_lines() yields them
UpstreamLines == {<< >>, <<65>>, <<32>>}

\* a status test that lets client errors through
is_error_status_5xx(status) == status >= 500

\* nim_response.status_code != 200
is_error_status(status) == status # 200

\* the non-streaming error body without its envelope
error_envelope_bare(up) == [error |-> up.text]

\* the non-streaming error body (lines 98-102)
error_envelope(up) ==
    [error |-> "NVIDIA API Error", details |-> up.text, status_code |-> up.status]

\* the streaming error body (line 78)
stream_error_body(up) == [error |-> up.text]

\* the upstream text wrapped instead of its parsed value
ok_reply_wrapped(up) == jsonify([data |-> up.text], up.status)

\* return jsonify(nim_response.json()), nim_response.status_code
ok_reply(up) == jsonify(JsonLoads(up.text), up.status)

----------------------------------------------------------------------------
(* Inbound requests *)

InboundValues(k) ==
    CASE k = "model" -> {"gpt-4"}
      [] k = "messages" -> {"[{\"role\":\"user\",\"content\":\"hi\"}]"}
      [] k = "temperature" -> {"0.2"}
      [] k = "top_p" -> {"0.9"}
      [] k = "max_tokens" -> {"256"}
      [] k = "stream" -> {"true", "false", "null", "1"}

\* JSON objects with any subset of the six keys
ObjectData ==
    UNION {{d \in [ks -> UNION {InboundValues(k) : k \in Keys}] :
              \A k \in ks : d[k] \in InboundValues(k)} : ks \in SUBSET Keys}

EmptyData == [k \in {} |-> ""]

Bodies ==
    {[kind |-> "object", data |-> d] : d \in ObjectData}
    \cup {[kind |-> "nonobject", data |-> EmptyData],
          [kind |-> "invalid", data |-> EmptyData]}

----------------------------------------------------------------------------
(* State machine *)

Init ==
    /\ NIM_API_KEY \in {NOT_CONFIGURED, "nvapi-0123456789"}
    /\ pc = "idle"
    /\ method = "GET"
    /\ body = [kind |-> "invalid", data |-> EmptyData]
    /\ sent = << >>
    /\ upstream = NoUpstream
    /\ received = << >>
    /\ relayed = << >>
    /\ response = NoResponse
    /\ failure = NoFailure

\* a request reaches the route /v1/chat/completions (line 27)
Receive(m, b) ==
    /\ pc \in {"idle", "done"}
    /\ pc' = "received"
    /\ method' = m
    /\ body' = b
    /\ sent' = << >>
    /\ upstream' = NoUpstream
    /\ received' = << >>
    /\ relayed' = << >>
    /\ response' = NoResponse
    /\ failure' = NoFailure
    /\ UNCHANGED NIM_API_KEY

\* request.method == 'OPTIONS' (line 30)
is_preflight == method = "OPTIONS"

\* a key test against the empty string
key_missing_empty == NIM_API_KEY = ""

\* NIM_API_KEY == 'not-configured' (line 42)
key_missing == NIM_API_KEY = NOT_CONFIGURED

\* lines 30-35
Preflight ==
    /\ pc = "received"
    /\ is_preflight
    /\ response' = jsonify([status |-> "ok"], 200)
    /\ pc' = "done"
    /\ UNCHANGED <<NIM_API_KEY, method, body, sent, upstream, received, relayed, failure>>

\* lines 38-39 raise: request.json on a body that is no JSON, data.get on a
\* JSON value that is no object; caught at line 112
BadBody ==
    /\ pc = "received"
    /\ ~is_preflight
    /\ body.kind # "object"
    /\ failure' = BodyException(body.kind)
    /\ response' = except_clauses(failure')
    /\ pc' = "done"
    /\ UNCHANGED <<NIM_API_KEY, method, body, sent, upstream, received, relayed>>

\* lines 42-44
NotConfigured ==
    /\ pc = "received"
    /\ ~is_preflight
    /\ body.kind = "object"
    /\ key_missing
    /\ response' = jsonify([error |-> "API key not configured on server. Please set NIM_API_KEY environment variable."], 500)
    /\ pc' = "done"
    /\ UNCHANGED <<NIM_API_KEY, method, body, sent, upstream, received, relayed, failure>>

\* the upstream request of requests.post (lines 65-71 and 87-92)
upstream_request(data, streaming) ==
    [url |-> NIM_BASE_URL \o "/chat/completions",
     headers |-> headers_of(NIM_API_KEY),
     json |-> nim_request_of(data),
     stream |-> streaming,
     timeout |-> TIMEOUT]

\* lines 47-71 / 87-92: build nim_request and start requests.post
Dispatch ==
    /\ pc = "received"
    /\ ~is_preflight
    /\ body.kind = "object"
    /\ ~key_missing
    /\ sent' = Append(sent, upstream_request(body.data,
                                Truthy(nim_request_of(body.data).stream)))
    /\ pc' = "posting"
    /\ UNCHANGED <<NIM_API_KEY, method, body, upstream, received, relayed, response, failure>>

\* if nim_request['stream'] (line 64)
streaming_mode == sent # << >> /\ sent[1].stream

\* requests.post raises and the call is made again
PostRaisesRetry(exc) ==
    /\ pc = "posting"
    /\ Len(sent) < 3
    /\ failure' = exc
    /\ sent' = Append(sent, sent[1])
    /\ UNCHANGED <<NIM_API_KEY, pc, method, body, upstream, received, relayed, response>>

\* requests.post raises; caught at line 106 or 109
PostRaises(exc) ==
    /\ pc = "posting"
    /\ failure' = exc
    /\ response' = except_clauses(exc)
    /\ pc' = "done"
    /\ UNCHANGED <<NIM_API_KEY, method, body, sent, upstream, received, relayed>>

\* lines 96-102
NonStreamError(up) ==
    /\ pc = "posting"
    /\ ~streaming_mode
    /\ is_error_status(up.status)
    /\ upstream' = up
    /\ response' = jsonify(error_envelope(up), up.status)
    /\ pc' = "done"
    /\ UNCHANGED <<NIM_API_KEY, method, body, sent, received, relayed, failure>>

\* line 104, the body parses
NonStreamOK(up) ==
    /\ pc = "posting"
    /\ ~streaming_mode
    /\ ~is_error_status(up.status)
    /\ IsJson(up.text)
    /\ upstream' = up
    /\ response' = ok_reply(up)
    /\ pc' = "done"
    /\ UNCHANGED <<NIM_API_KEY, method, body, sent, received, relayed, failure>>

\* line 104, nim_response.json() raises; caught at line 109 or 112
NonStreamBadJson(up, exc) ==
    /\ pc = "posting"
    /\ ~streaming_mode
    /\ ~is_error_status(up.status)
    /\ ~IsJson(up.text)
    /\ upstream' = up
    /\ failure' = exc
    /\ response' = except_clauses(exc)
    /\ pc' = "done"
    /\ UNCHANGED <<NIM_API_KEY, method, body, sent, received, relayed>>

\* lines 75-78
StreamError(up) ==
    /\ pc = "posting"
    /\ streaming_mode
    /\ is_error_status(up.status)
    /\ upstream' = up
    /\ response' = jsonify(stream_error_body(up), up.status)
    /\ pc' = "done"
    /\ UNCHANGED <<NIM_API_KEY, method, body, sent, received, relayed, failure>>

\* line 85: return Response(generate(), mimetype='text/event-stream')
StreamOpen(up) ==
    /\ pc = "posting"
    /\ streaming_mode
    /\ ~is_error_status(up.status)
    /\ upstream' = up
    /\ response' = [status |-> 200, mimetype |-> "text/event-stream", json |-> NoJson]
    /\ pc' = "streaming"
    /\ UNCHANGED <<NIM_API_KEY, method, body, sent, received, relayed, failure>>

\* a loop that yields every line
should_yield_all(chunk) == TRUE

\* if chunk (line 82): a bytes object is true unless empty
should_yield(chunk) == chunk # << >>

\* chunk + b'\n' (line 83)
yielded(chunk) == Append(chunk, NL)

\* lines 81-83: one turn of the loop in generate()
GenerateLine(chunk) ==
    /\ pc = "streaming"
    /\ Len(received) < MaxLines
    /\ received' = Append(received, chunk)
    /\ relayed' = IF should_yield(chunk) THEN Append(relayed, yielded(chunk)) ELSE relayed
    /\ UNCHANGED <<NIM_API_KEY, pc, method, body, sent, upstream, response, failure>>

\* line 81: iter_lines() is exhausted
GenerateEnd ==
    /\ pc = "streaming"
    /\ pc' = "done"
    /\ UNCHANGED <<NIM_API_KEY, method, body, sent, upstream, received, relayed, response, failure>>

\* line 81: iter_lines() raises inside generate(); the handler has returned
\* and its except clauses no longer apply
GenerateRaises(exc) ==
    /\ pc = "streaming"
    /\ failure' = exc
    /\ pc' = "done"
    /\ UNCHANGED <<NIM_API_KEY, method, body, sent, upstream, received, relayed, response>>

Answers == [status : UpstreamStatuses, text : UpstreamTexts]

\* POST with any body; an OPTIONS preflight carries none
Requests ==
    {[method |-> "POST", body |-> b] : b \in Bodies}
    \cup {[method |-> "OPTIONS", body |-> [kind |-> "invalid", data |-> EmptyData]]}

Next ==
    \/ \E r \in Requests : Receive(r.method, r.body)
    \/ Preflight
    \/ BadBody
    \/ NotConfigured
    \/ Dispatch
    \/ \E exc \in PostExceptions : PostRaises(exc)
    \/ \E up \in Answers : NonStreamError(up)
    \/ \E up \in Answers : NonStreamOK(up)
    \/ \E up \in Answers, exc \in JsonExceptions : NonStreamBadJson(up, exc)
    \/ \E up \in Answers : StreamError(up)
    \/ \E up \in [status : UpstreamStatuses, text : {""}] : StreamOpen(up)
    \/ \E chunk \in UpstreamLines : GenerateLine(chunk)
    \/ GenerateEnd
    \/ \E exc \in StreamExceptions : GenerateRaises(exc)

Spec == Init /\ [][Next]_vars

----------------------------------------------------------------------------
(* Properties *)

\* C1: while the credential is the sentinel 'not-configured', a POST is
\* answered 500 whatever its body and stream flag, and no upstream request
\* is sent at any point of its handling.
C1_NoKeyIs500WithoutUpstream ==
    (method = "POST" /\ NIM_API_KEY = NOT_CONFIGURED) =>
        /\ sent = << >>
        /\ pc \notin {"posting", "streaming"}
        /\ (pc = "done" => response.status = 500)

C1_Witness ==
    /\ pc = "done"
    /\ method = "POST"
    /\ NIM_API_KEY = NOT_CONFIGURED
    /\ body.kind = "object"
    /\ DOMAIN body.data = {"stream"}
    /\ body.data["stream"] = "true"
    /\ response.status = 500

\* the defaults the specification documents
DocumentedDefault(k) ==
    CASE k = "model" -> "meta/llama-3.3-70b-instruct"
      [] k = "messages" -> "[]"
      [] k = "temperature" -> "0.7"
      [] k = "top_p" -> "1.0"
      [] k = "max_tokens" -> "1024"
      [] k = "stream" -> "false"

\* C2: every upstream request carries, for each of the six fields, the
\* inbound value when the key is present in the body and the documented
\* default otherwise.
C2_UpstreamFieldsFromBodyOrDefault ==
    \A i \in 1..Len(sent) :
        /\ body.kind = "object"
        /\ DOMAIN sent[i].json = Keys
        /\ \A k \in Keys :
             sent[i].json[k] =
                IF k \in DOMAIN body.data THEN body.data[k] ELSE DocumentedDefault(k)

C2_Witness ==
    /\ Len(sent) = 1
    /\ DOMAIN body.data = {"model", "stream"}
    /\ body.data["stream"] = "null"
    /\ sent[1].json["stream"] = "null"
    /\ sent[1].json["top_p"] = "1.0"
    /\ sent[1].json["model"] = "gpt-4"

\* the non-empty lines of a sequence of lines, in order
NonEmptyLines(lines) == SelectSeq(lines, LAMBDA l : Len(l) > 0)

\* C3: in a 200 stream the chunks relayed are exactly the non-empty lines
\* received, in order, each followed by one newline byte; an empty line
\* gives no chunk and nothing else is relayed.
C3_RelayIsNonEmptyLines ==
    /\ Len(relayed) = Len(NonEmptyLines(received))
    /\ \A i \in 1..Len(relayed) : relayed[i] = NonEmptyLines(received)[i] \o <<10>>
    /\ (received # << >> => response.status = 200 /\ response.mimetype = "text/event-stream")

C3_Witness ==
    /\ pc = "done"
    /\ failure = NoFailure
    /\ received = << <<65>>, << >>, <<32>> >>
    /\ relayed = << <<65, 10>>, <<32, 10>> >>

\* C4: whenever the upstream call times out, while connecting or while
\* reading, in either mode, the caller receives 504.
C4_TimeoutIs504 ==
    (pc = "done" /\ failure.cause = "timeout") => response.status = 504

\* C5: whenever the upstream call fails at the transport level for a reason
\* other than a timeout, in either mode, the caller receives 502 and a JSON
\* error payload with the failure description.
C5_TransportFailureIs502 ==
    (pc = "done" /\ failure.cause = "transport") =>
        /\ response.status = 502
        /\ response.mimetype = "application/json"
        /\ response.json = [error |-> "Request error: " \o failure.desc]

\* C6: in non-streaming mode an upstream status s other than 200 with text t
\* is answered with status s and {error: 'NVIDIA API Error', details: t,
\* status_code: s}.
C6_NonStreamErrorEnvelope ==
    (pc = "done" /\ Len(sent) > 0 /\ ~sent[1].stream /\ upstream.status \notin {0, 200}) =>
        /\ response.status = upstream.status
        /\ response.mimetype = "application/json"
        /\ DOMAIN response.json = {"error", "details", "status_code"}
        /\ response.json.error = "NVIDIA API Error"
        /\ response.json.details = upstream.text
        /\ response.json.status_code = upstream.status

C6_Witness ==
    /\ pc = "done"
    /\ Len(sent) = 1
    /\ ~sent[1].stream
    /\ upstream = [status |-> 429, text |-> "rate limited"]
    /\ response.status = 429
    /\ response.json.details = "rate limited"

\* C7: in non-streaming mode an upstream 200 with a JSON body is answered
\* 200 with the same JSON value, nothing added, removed or renamed.
C7_NonStreamPassThrough ==
    (pc = "done" /\ Len(sent) > 0 /\ ~sent[1].stream
       /\ upstream.status = 200 /\ IsJson(upstream.text)) =>
        /\ response.status = 200
        /\ response.mimetype = "application/json"
        /\ DOMAIN response.json = DOMAIN JsonLoads(upstream.text)
        /\ response.json = JsonLoads(upstream.text)

C7_Witness ==
    /\ pc = "done"
    /\ Len(sent) = 1
    /\ ~sent[1].stream
    /\ upstream = [status |-> 200, text |-> "{ \"id\" : \"x\" }"]
    /\ response.status = 200
    /\ DOMAIN response.json = {"id"}
    /\ response.json.id = "x"

\* C8: in streaming mode an upstream status other than 200 is answered by a
\* single JSON response with that status and the raw upstream text, and no
\* chunk is produced for the request.
C8_StreamErrorIsPlainJson ==
    (Len(sent) > 0 /\ sent[1].stream /\ upstream.status \notin {0, 200}) =>
        /\ pc = "done"
        /\ response.status = upstream.status
        /\ response.mimetype = "application/json"
        /\ DOMAIN response.json = {"error"}
        /\ response.json.error = upstream.text
        /\ relayed = << >>
        /\ received = << >>

C8_Witness ==
    /\ pc = "done"
    /\ Len(sent) = 1
    /\ sent[1].stream
    /\ upstream = [status |-> 429, text |-> "rate limited"]
    /\ response.status = 429
    /\ response.json.error = "rate limited"

\* C9: at most one upstream request is sent while one inbound request is
\* handled, whatever the outcome; a preflight sends none and is answered 200.
C9_NoRetries ==
    /\ Len(sent) <= 1
    /\ (method = "OPTIONS" => sent = << >> /\ pc \notin {"posting", "streaming"})
    /\ (method = "OPTIONS" /\ pc = "done" => response.status = 200)

C9_Witness ==
    /\ pc = "done"
    /\ Len(sent) = 1
    /\ failure.cause = "timeout"
    /\ failure.caught

\* C10, as stated: every failure that is neither a timeout nor a transport
\* failure is answered 500 with its description, and 504 and 502 are
\* produced only for timeouts and transport failures respectively.
C10_EveryOtherFailureIs500 ==
    pc = "done" =>
        /\ (failure.cause \notin {"none", "timeout", "transport"} =>
               response.status = 500 /\ response.json = [error |-> failure.desc])
        /\ (response.status = 504 => failure.cause = "timeout")
        /\ (response.status = 502 => failure.cause = "transport")

\* C10, amended: an exception raised inside the handler's try block that is
\* no requests RequestException is answered 500 with its description; 504 is
\* produced only for a caught requests Timeout or a relayed upstream 504, and
\* 502 only for another caught RequestException or a relayed upstream 502.
C10_ByExceptionClass ==
    pc = "done" =>
        /\ (failure.caught /\ "RequestException" \notin Bases(failure.cls) =>
               response.status = 500 /\ response.json = [error |-> failure.desc])
        /\ (response.status = 504 =>
               \/ failure.caught /\ "Timeout" \in Bases(failure.cls)
               \/ upstream.status = 504)
        /\ (response.status = 502 =>
               \/ /\ failure.caught
                  /\ "RequestException" \in Bases(failure.cls)
                  /\ "Timeout" \notin Bases(failure.cls)
               \/ upstream.status = 502)

C10_Witness ==
    /\ pc = "done"
    /\ method = "POST"
    /\ body.kind = "nonobject"
    /\ failure.cls = "AttributeError"
    /\ response.status = 500

====
